---- MODULE Spec2Model ----
(***************************************************************************)
(* HTTP status checker widget: the checkStatusCode handler of the          *)
(* HttpStatusChecker component, its urlRequest probe, the phrase table and *)
(* the useStatusHistory hook, as a state machine over the component's      *)
(* React state.  Strings are sequences of one-character strings, so that   *)
(* trim, toLowerCase, the digit test and the table lookup are computed     *)
(* character by character.                                                 *)
(***************************************************************************)
EXTENDS Integers, Sequences, FiniteSets, TLC

(* ------------------------------------------------------------------ *)
(* Bounds of the model                                                   *)
(* ------------------------------------------------------------------ *)
\* checks started in one run of the session model
MaxChecks == 2
\* addStatus calls in one run of the history model
MaxAppends == 12

(* ------------------------------------------------------------------ *)
(* Characters and the string functions the handler uses                  *)
(* ------------------------------------------------------------------ *)
LowerLetters ==
    <<"a", "b", "c", "d", "e", "f", "g", "h", "i", "j", "k", "l", "m",
      "n", "o", "p", "q", "r", "s", "t", "u", "v", "w", "x", "y", "z">>

UpperLetters ==
    <<"A", "B", "C", "D", "E", "F", "G", "H", "I", "J", "K", "L", "M",
      "N", "O", "P", "Q", "R", "S", "T", "U", "V", "W", "X", "Y", "Z">>

Range(f) == {f[i] : i \in DOMAIN f}

Alpha == Range(LowerLetters) \cup Range(UpperLetters)

DigitChars == <<"0", "1", "2", "3", "4", "5", "6", "7", "8", "9">>

Digits == Range(DigitChars)

\* the characters String.prototype.trim removes (those the inputs can hold)
WhiteSpace == {" ", "\t", "\n", "\r"}

RECURSIVE trimStart(_)
trimStart(s) ==
    IF s # <<>> /\ Head(s) \in WhiteSpace THEN trimStart(Tail(s)) ELSE s

RECURSIVE trimEnd(_)
trimEnd(s) ==
    IF s # <<>> /\ s[Len(s)] \in WhiteSpace
    THEN trimEnd(SubSeq(s, 1, Len(s) - 1))
    ELSE s

\* String.prototype.trim
trim(s) == trimEnd(trimStart(s))

toLowerChar(c) ==
    IF \E i \in DOMAIN UpperLetters : UpperLetters[i] = c
    THEN LowerLetters[CHOOSE i \in DOMAIN UpperLetters : UpperLetters[i] = c]
    ELSE c

\* String.prototype.toLowerCase
toLowerCase(s) == [i \in DOMAIN s |-> toLowerChar(s[i])]

\* /^\d+$/.test(s): one or more characters, every one a decimal digit
isDigits(s) == Len(s) > 0 /\ \A i \in DOMAIN s : s[i] \in Digits

DigitValue(c) == (CHOOSE i \in DOMAIN DigitChars : DigitChars[i] = c) - 1

\* parseInt(s, 10) on a string of decimal digits
RECURSIVE parseInt(_)
parseInt(s) ==
    IF s = <<>> THEN 0
    ELSE 10 * parseInt(SubSeq(s, 1, Len(s) - 1)) + DigitValue(s[Len(s)])

(* ------------------------------------------------------------------ *)
(* Values of the handler's statusCode variable                           *)
(* ------------------------------------------------------------------ *)
\* null
NullCode == [kind |-> "null", val |-> 0]

\* a number
Num(n) == [kind |-> "number", val |-> n]

\* the value of a property inherited from Object.prototype: an object or a
\* function, truthy, and NaN in every numeric comparison
ProtoValue == [kind |-> "object", val |-> 0]

\* undefined: the value of a property that is not there
Undefined == [kind |-> "undefined", val |-> 0]

(* ------------------------------------------------------------------ *)
(* The phrase table                                                      *)
(* ------------------------------------------------------------------ *)
statusCodeMap ==
    <<"c", "o", "n", "t", "i", "n", "u", "e">> :> 100 @@
       <<"s", "w", "i", "t", "c", "h", "i", "n", "g", " ", "p", "r", "o", "t", "o", "c", "o", "l", "s">> :> 101 @@
       <<"p", "r", "o", "c", "e", "s", "s", "i", "n", "g">> :> 102 @@
       <<"e", "a", "r", "l", "y", " ", "h", "i", "n", "t", "s">> :> 103 @@
       <<"o", "k">> :> 200 @@
       <<"c", "r", "e", "a", "t", "e", "d">> :> 201 @@
       <<"a", "c", "c", "e", "p", "t", "e", "d">> :> 202 @@
       <<"n", "o", "n", "-", "a", "u", "t", "h", "o", "r", "i", "t", "a", "t", "i", "v", "e", " ", "i", "n", "f", "o", "r", "m", "a", "t", "i", "o", "n">> :> 203 @@
       <<"n", "o", " ", "c", "o", "n", "t", "e", "n", "t">> :> 204 @@
       <<"r", "e", "s", "e", "t", " ", "c", "o", "n", "t", "e", "n", "t">> :> 205 @@
       <<"p", "a", "r", "t", "i", "a", "l", " ", "c", "o", "n", "t", "e", "n", "t">> :> 206 @@
       <<"m", "u", "l", "t", "i", "p", "l", "e", " ", "c", "h", "o", "i", "c", "e", "s">> :> 300 @@
       <<"m", "o", "v", "e", "d", " ", "p", "e", "r", "m", "a", "n", "e", "n", "t", "l", "y">> :> 301 @@
       <<"f", "o", "u", "n", "d">> :> 302 @@
       <<"s", "e", "e", " ", "o", "t", "h", "e", "r">> :> 303 @@
       <<"n", "o", "t", " ", "m", "o", "d", "i", "f", "i", "e", "d">> :> 304 @@
       <<"t", "e", "m", "p", "o", "r", "a", "r", "y", " ", "r", "e", "d", "i", "r", "e", "c", "t">> :> 307 @@
       <<"p", "e", "r", "m", "a", "n", "e", "n", "t", " ", "r", "e", "d", "i", "r", "e", "c", "t">> :> 308 @@
       <<"b", "a", "d", " ", "r", "e", "q", "u", "e", "s", "t">> :> 400 @@
       <<"u", "n", "a", "u", "t", "h", "o", "r", "i", "z", "e", "d">> :> 401 @@
       <<"p", "a", "y", "m", "e", "n", "t", " ", "r", "e", "q", "u", "i", "r", "e", "d">> :> 402 @@
       <<"f", "o", "r", "b", "i", "d", "d", "e", "n">> :> 403 @@
       <<"n", "o", "t", " ", "f", "o", "u", "n", "d">> :> 404 @@
       <<"m", "e", "t", "h", "o", "d", " ", "n", "o", "t", " ", "a", "l", "l", "o", "w", "e", "d">> :> 405 @@
       <<"n", "o", "t", " ", "a", "c", "c", "e", "p", "t", "a", "b", "l", "e">> :> 406 @@
       <<"r", "e", "q", "u", "e", "s", "t", " ", "t", "i", "m", "e", "o", "u", "t">> :> 408 @@
       <<"c", "o", "n", "f", "l", "i", "c", "t">> :> 409 @@
       <<"g", "o", "n", "e">> :> 410 @@
       <<"i", "n", "t", "e", "r", "n", "a", "l", " ", "e", "r", "r", "o", "r">> :> 500 @@
       <<"i", "n", "t", "e", "r", "n", "a", "l", " ", "s", "e", "r", "v", "e", "r", " ", "e", "r", "r", "o", "r">> :> 500 @@
       <<"n", "o", "t", " ", "i", "m", "p", "l", "e", "m", "e", "n", "t", "e", "d">> :> 501 @@
       <<"b", "a", "d", " ", "g", "a", "t", "e", "w", "a", "y">> :> 502 @@
       <<"s", "e", "r", "v", "i", "c", "e", " ", "u", "n", "a", "v", "a", "i", "l", "a", "b", "l", "e">> :> 503 @@
       <<"g", "a", "t", "e", "w", "a", "y", " ", "t", "i", "m", "e", "o", "u", "t">> :> 504 @@
       <<"h", "t", "t", "p", " ", "v", "e", "r", "s", "i", "o", "n", " ", "n", "o", "t", " ", "s", "u", "p", "p", "o", "r", "t", "e", "d">> :> 505

\* names of the properties every object inherits from Object.prototype
ObjectPrototypeKeys ==
    { <<"c", "o", "n", "s", "t", "r", "u", "c", "t", "o", "r">>,
      <<"_", "_", "p", "r", "o", "t", "o", "_", "_">>,
      <<"t", "o", "S", "t", "r", "i", "n", "g">>,
      <<"v", "a", "l", "u", "e", "O", "f">>,
      <<"h", "a", "s", "O", "w", "n", "P", "r", "o", "p", "e", "r", "t", "y">>,
      <<"i", "s", "P", "r", "o", "t", "o", "t", "y", "p", "e", "O", "f">>,
      <<"t", "o", "L", "o", "c", "a", "l", "e", "S", "t", "r", "i", "n", "g">> }

\* statusCodeMap[key]: a property read on an object literal, which finds the
\* table's own keys and then the inherited ones
propertyGet(key) ==
    IF key \in DOMAIN statusCodeMap THEN Num(statusCodeMap[key])
    ELSE IF key \in ObjectPrototypeKeys THEN ProtoValue
    ELSE Undefined

\* v || null
orNull(v) ==
    IF v.kind = "undefined" \/ (v.kind = "number" /\ v.val = 0)
    THEN NullCode
    ELSE v

\* the phrase lookup on the input as typed, not normalised
phraseLookup_AsTyped(input) == orNull(propertyGet(trim(input)))

\* the phrase lookup of checkStatusCode
phraseLookup(input) == orNull(propertyGet(trim(toLowerCase(input))))

(* ------------------------------------------------------------------ *)
(* new URL(s): whether the platform's parser accepts s as an absolute  *)
(* URL (scheme, and a host for the schemes that need one)               *)
(* ------------------------------------------------------------------ *)
\* position of the first ":" of s, 0 when there is none
colonAt(s) ==
    IF \E i \in DOMAIN s : s[i] = ":"
    THEN CHOOSE i \in DOMAIN s : s[i] = ":" /\ \A j \in 1..(i - 1) : s[j] # ":"
    ELSE 0

validScheme(s, k) ==
    /\ k > 1
    /\ s[1] \in Alpha
    /\ \A i \in 2..(k - 1) : s[i] \in Alpha \cup Digits \cup {"+", "-", "."}

\* schemes whose URLs need a host
hostSchemes ==
    { <<"h", "t", "t", "p">>, <<"h", "t", "t", "p", "s">>, <<"f", "t", "p">>,
      <<"w", "s">>, <<"w", "s", "s">> }

RECURSIVE skipSlashes(_)
skipSlashes(s) ==
    IF s # <<>> /\ Head(s) \in {"/", "\\"} THEN skipSlashes(Tail(s)) ELSE s

RECURSIVE hostOf(_)
hostOf(s) ==
    IF s = <<>> \/ Head(s) \in {"/", "\\", "?", "#"} THEN <<>>
    ELSE <<Head(s)>> \o hostOf(Tail(s))

validHost(h) ==
    /\ h # <<>>
    /\ \A i \in DOMAIN h : h[i] \notin WhiteSpace \cup {"<", ">", "^", "|", "%"}

isAbsoluteURL(s) ==
    LET k == colonAt(s) IN
    /\ validScheme(s, k)
    /\ toLowerCase(SubSeq(s, 1, k - 1)) \in hostSchemes
          => validHost(hostOf(skipSlashes(SubSeq(s, k + 1, Len(s)))))

(* ------------------------------------------------------------------ *)
(* Inputs the user types                                                 *)
(* ------------------------------------------------------------------ *)
Inputs ==
    { <<>>,
      <<" ">>,
      <<"2", "0", "0">>,
      <<" ", "2", "0", "0", " ">>,
      <<"4", "0", "4">>,
      <<"6", "0", "0">>,
      <<"C", "o", "n", "t", "i", "n", "u", "e">>,
      <<" ", "n", "o", "t", " ", "f", "o", "u", "n", "d", " ">>,
      <<"N", "O", "T", " ", "F", "O", "U", "N", "D">>,
      <<"c", "o", "n", "s", "t", "r", "u", "c", "t", "o", "r">>,
      <<"h", "t", "t", "p", "s", ":", "/", "/", "a", ".", "b">>,
      <<"h", "t", "t", "p", "s", ":">> }

\* a phrase as the user may type it: letters in another case, whitespace
\* before and after
toUpperChar(c) ==
    IF \E i \in DOMAIN LowerLetters : LowerLetters[i] = c
    THEN UpperLetters[CHOOSE i \in DOMAIN LowerLetters : LowerLetters[i] = c]
    ELSE c

toUpperCase(s) == [i \in DOMAIN s |-> toUpperChar(s[i])]

\* the letters at odd positions in upper case
mixedCase(s) == [i \in DOMAIN s |-> IF i % 2 = 1 THEN toUpperChar(s[i]) ELSE s[i]]

variantsOf(p) ==
    { p,
      toUpperCase(p),
      mixedCase(p),
      <<" ">> \o p \o <<" ">>,
      <<"\t", " ">> \o toUpperCase(p),
      mixedCase(p) \o <<" ", "\n">> }

PhraseVariants == UNION {variantsOf(p) : p \in DOMAIN statusCodeMap}

\* the string functions of the handler, computed once for each input
Tabulated ==
    [v \in Inputs \cup PhraseVariants |->
        [trim |-> trim(v),
         isDigits |-> isDigits(v),
         parseInt |-> IF isDigits(v) THEN parseInt(v) ELSE 0,
         isAbsoluteURL |-> isAbsoluteURL(trim(v)),
         phraseLookup |-> phraseLookup(v)]]

(* ------------------------------------------------------------------ *)
(* urlRequest                                                            *)
(* ------------------------------------------------------------------ *)
\* the transport's answers to one fetch: a response with a status, or a rejection
ProbeStatuses == {200, 301, 503}

Responses ==
    {[kind |-> "response", status |-> s] : s \in ProbeStatuses}
        \cup {[kind |-> "rejected", status |-> 0]}

\* urlRequest without its catch block: the error leaves urlRequest
urlRequestCatch_Rethrow == [threw |-> TRUE, code |-> NullCode, setIsUrl |-> FALSE]

\* the catch block: the error is logged and the probe returns null
urlRequestCatch == [threw |-> FALSE, code |-> NullCode, setIsUrl |-> FALSE]

\* whether urlRequest(input) gets as far as calling fetch
urlRequestFetches(input) == Tabulated[input].isAbsoluteURL

\* urlRequest(input), given the transport's answer to the fetch it may issue
urlRequest(input, answer) ==
    IF ~Tabulated[input].isAbsoluteURL THEN urlRequestCatch
    ELSE IF answer.kind = "rejected" THEN urlRequestCatch
    ELSE [threw |-> FALSE, code |-> Num(answer.status), setIsUrl |-> TRUE]

(* ------------------------------------------------------------------ *)
(* Classification and the history hook                                   *)
(* ------------------------------------------------------------------ *)
Lights == {"green", "orange", "red", "off"}

Categories == {"1xx", "2xx", "3xx", "4xx", "5xx", "invalid"}

\* c >= lo && c < hi, false when c is not a number (NaN)
inRange(c, lo, hi) == c.kind = "number" /\ c.val >= lo /\ c.val < hi

\* classify with 3xx treated as neither success nor failure
classify_RedirectAmber(c) ==
    IF inRange(c, 100, 300) THEN
        [light |-> "green", category |-> IF inRange(c, 100, 200) THEN "1xx" ELSE "2xx"]
    ELSE IF inRange(c, 300, 400) THEN [light |-> "orange", category |-> "3xx"]
    ELSE IF inRange(c, 400, 500) THEN [light |-> "red", category |-> "4xx"]
    ELSE IF inRange(c, 500, 600) THEN [light |-> "red", category |-> "5xx"]
    ELSE [light |-> "orange", category |-> "invalid"]

\* classify without the final else: no code leaves the light off
classify_NoCodeOff(c) ==
    IF c = NullCode THEN [light |-> "off", category |-> "invalid"]
    ELSE IF inRange(c, 100, 200) THEN [light |-> "green", category |-> "1xx"]
    ELSE IF inRange(c, 200, 300) THEN [light |-> "green", category |-> "2xx"]
    ELSE IF inRange(c, 300, 400) THEN [light |-> "green", category |-> "3xx"]
    ELSE IF inRange(c, 400, 500) THEN [light |-> "red", category |-> "4xx"]
    ELSE IF inRange(c, 500, 600) THEN [light |-> "red", category |-> "5xx"]
    ELSE [light |-> "orange", category |-> "invalid"]

\* the light and category checkStatusCode sets for statusCode c
classify(c) ==
    IF c # NullCode THEN
        IF inRange(c, 100, 200) THEN [light |-> "green", category |-> "1xx"]
        ELSE IF inRange(c, 200, 300) THEN [light |-> "green", category |-> "2xx"]
        ELSE IF inRange(c, 300, 400) THEN [light |-> "green", category |-> "3xx"]
        ELSE IF inRange(c, 400, 500) THEN [light |-> "red", category |-> "4xx"]
        ELSE IF inRange(c, 500, 600) THEN [light |-> "red", category |-> "5xx"]
        ELSE [light |-> "orange", category |-> "invalid"]
    ELSE [light |-> "orange", category |-> "invalid"]

\* number of entries the history keeps
HistoryCap == 10

\* slice(-n) of a sequence
sliceLast(s, n) == IF Len(s) <= n THEN s ELSE SubSeq(s, Len(s) - n + 1, Len(s))

\* addStatus keeping the first entries instead of the last: slice(0, 10)
addStatus_KeepFirst(prev, status) ==
    SubSeq(Append(prev, status), 1, IF Len(prev) + 1 <= HistoryCap
                                    THEN Len(prev) + 1 ELSE HistoryCap)

\* addStatus skipping an entry whose code repeats the newest kept one
addStatus_Dedup(prev, status) ==
    IF prev # <<>> /\ prev[Len(prev)].code = status.code
    THEN prev
    ELSE sliceLast(Append(prev, status), HistoryCap)

\* the state update of addStatus: prev => [...prev, status].slice(-10)
addStatus(prev, status) == sliceLast(Append(prev, status), HistoryCap)

(* ------------------------------------------------------------------ *)
(* State                                                                 *)
(* ------------------------------------------------------------------ *)
VARIABLES
    inputValue,          \* useState(''): the text of the input field
    trafficLightStatus,  \* useState('off')
    statusCategory,      \* useState('invalid')
    isUrl,               \* useState(false): offers the "open new tab" button
    confirmedInput,      \* useState(''): the input shown in the info panel
    history,             \* useStatusHistory: the kept entries
    pending,             \* checks suspended at "await fetch", each with the
                         \* inputValue and statusCategory its closure captured
    now,                 \* the last value Date.now() returned
    nChecks,             \* number of checkStatusCode calls so far
    fetches,             \* number of fetch calls issued so far
    done,                \* the checks that have finished, in order of finishing
    appended             \* every entry handed to addStatus, in order

vars ==
    <<inputValue, trafficLightStatus, statusCategory, isUrl, confirmedInput,
      history, pending, now, nChecks, fetches, done, appended>>

Init ==
    /\ inputValue = <<>>
    /\ trafficLightStatus = "off"
    /\ statusCategory = "invalid"
    /\ isUrl = FALSE
    /\ confirmedInput = <<>>
    /\ history = <<>>
    /\ pending = {}
    /\ now = 0
    /\ nChecks = 0
    /\ fetches = 0
    /\ done = <<>>
    /\ appended = <<>>

\* the condition of the "Open URL in a new tab" button
openUrlButtonShown == trafficLightStatus = "green" /\ isUrl

\* the address the button opens: window.open(inputValue.trim(), '_blank')
openedAddress == Tabulated[inputValue].trim

(* ------------------------------------------------------------------ *)
(* Operations                                                            *)
(* ------------------------------------------------------------------ *)
handleInputChange(value) ==
    /\ inputValue' = value
    /\ UNCHANGED <<trafficLightStatus, statusCategory, isUrl, confirmedInput,
                   history, pending, now, nChecks, fetches, done, appended>>

\* a check starting while these probes are in flight overlaps each of them
markOverlapped(P) == {[p EXCEPT !.overlapped = TRUE] : p \in P}

\* the entry checkStatusCode hands to addStatus; category is the
\* statusCategory of the render whose closure runs the check
historyEntry(code, category, timestamp) ==
    [code |-> code, category |-> category, timestamp |-> timestamp]

\* the record of a finished check: what it resolved and how, and what the
\* component shows and has appended once it has finished
recordDone(id, input, code, via, overlapped) ==
    done' = Append(done,
                   [id |-> id, input |-> input, code |-> code, via |-> via,
                    light |-> trafficLightStatus', category |-> statusCategory',
                    appends |-> Len(appended') - Len(appended),
                    overlapped |-> overlapped])

\* Date.now(): the clock does not run backwards, and two reads may fall in
\* the same millisecond
dateNow == {now, now + 1}

\* the end of checkStatusCode: the history append and the classification
finish(id, input, code, via, capturedCategory, overlapped) ==
    LET shown == classify(code)
    IN /\ IF code # NullCode
          THEN \E t \in dateNow :
                  LET entry == historyEntry(code, capturedCategory, t)
                  IN /\ now' = t
                     /\ history' = addStatus(history, entry)
                     /\ appended' = Append(appended, entry)
          ELSE UNCHANGED <<now, history, appended>>
       /\ trafficLightStatus' = shown.light
       /\ statusCategory' = shown.category
       /\ recordDone(id, input, code, via, overlapped)

\* checkStatusCode after "await urlRequest(inputValue)" gave r
resume(id, input, capturedCategory, overlapped, r) ==
    IF r.threw
    THEN /\ UNCHANGED <<trafficLightStatus, statusCategory, isUrl, history,
                        appended, now>>
         /\ recordDone(id, input, NullCode, "exception", overlapped)
    ELSE LET code == IF r.code = NullCode
                     THEN Tabulated[input].phraseLookup
                     ELSE r.code
             via == IF r.code # NullCode THEN "url"
                    ELSE IF code # NullCode THEN "phrase"
                    ELSE "none"
         IN /\ isUrl' = (isUrl \/ r.setIsUrl)
            /\ finish(id, input, code, via, capturedCategory, overlapped)

\* the empty check placed after setConfirmedInput and resetting the flag
CheckEmpty_AfterConfirm ==
    /\ nChecks < MaxChecks
    /\ Tabulated[inputValue].trim = <<>>
    /\ confirmedInput' = inputValue
    /\ isUrl' = FALSE
    /\ trafficLightStatus' = "off"
    /\ statusCategory' = "invalid"
    /\ nChecks' = nChecks + 1
    /\ pending' = markOverlapped(pending)
    /\ UNCHANGED <<inputValue, history, now, fetches, appended>>
    /\ recordDone(nChecks + 1, inputValue, NullCode, "empty", pending # {})

\* checkStatusCode on empty or whitespace-only input
CheckEmpty ==
    /\ nChecks < MaxChecks
    /\ Tabulated[inputValue].trim = <<>>
    /\ trafficLightStatus' = "off"
    /\ statusCategory' = "invalid"
    /\ nChecks' = nChecks + 1
    /\ pending' = markOverlapped(pending)
    /\ UNCHANGED <<inputValue, isUrl, confirmedInput, history, now, fetches,
                   appended>>
    /\ recordDone(nChecks + 1, inputValue, NullCode, "empty", pending # {})

\* checkStatusCode on input the digit test accepts
CheckNumeric ==
    /\ nChecks < MaxChecks
    /\ Tabulated[inputValue].trim # <<>>
    /\ Tabulated[inputValue].isDigits
    /\ confirmedInput' = inputValue
    /\ isUrl' = FALSE
    /\ finish(nChecks + 1, inputValue, Num(Tabulated[inputValue].parseInt),
              "numeric",
              statusCategory, pending # {})
    /\ nChecks' = nChecks + 1
    /\ pending' = markOverlapped(pending)
    /\ UNCHANGED <<inputValue, fetches>>

\* checkStatusCode on other input that new URL rejects: urlRequest ends in
\* its catch block without a fetch, and the check resumes before any other
\* event is handled
CheckNoFetch ==
    /\ nChecks < MaxChecks
    /\ Tabulated[inputValue].trim # <<>>
    /\ ~Tabulated[inputValue].isDigits
    /\ ~urlRequestFetches(inputValue)
    /\ confirmedInput' = inputValue
    /\ resume(nChecks + 1, inputValue, statusCategory, pending # {},
              urlRequest(inputValue, [kind |-> "rejected", status |-> 0]))
    /\ nChecks' = nChecks + 1
    /\ pending' = markOverlapped(pending)
    /\ UNCHANGED <<inputValue, fetches>>

\* checkStatusCode on other input that new URL accepts: urlRequest issues
\* the fetch and the check is suspended until the transport answers
CheckFetch ==
    /\ nChecks < MaxChecks
    /\ Tabulated[inputValue].trim # <<>>
    /\ ~Tabulated[inputValue].isDigits
    /\ urlRequestFetches(inputValue)
    /\ confirmedInput' = inputValue
    /\ nChecks' = nChecks + 1
    /\ fetches' = fetches + 1
    /\ pending' = markOverlapped(pending) \cup
                    {[id |-> nChecks + 1, input |-> inputValue,
                      category |-> statusCategory, overlapped |-> pending # {}]}
    /\ UNCHANGED <<inputValue, trafficLightStatus, statusCategory, isUrl,
                   history, now, done, appended>>

\* settle with stale answers dropped: a check that is no longer the latest
\* one started ends without touching what is shown
settle_DropStale(p, answer) ==
    /\ pending' = pending \ {p}
    /\ IF p.id = nChecks
       THEN resume(p.id, p.input, p.category, p.overlapped,
                   urlRequest(p.input, answer))
       ELSE /\ UNCHANGED <<trafficLightStatus, statusCategory, isUrl, history,
                           appended, now>>
            /\ recordDone(p.id, p.input, urlRequest(p.input, answer).code,
                          "dropped", p.overlapped)
    /\ UNCHANGED <<inputValue, confirmedInput, nChecks, fetches>>

\* the transport answers the fetch of check p and the check runs to its end
settle(p, answer) ==
    /\ pending' = pending \ {p}
    /\ resume(p.id, p.input, p.category, p.overlapped, urlRequest(p.input, answer))
    /\ UNCHANGED <<inputValue, confirmedInput, nChecks, fetches>>

FetchResolve(id) ==
    \E p \in pending : \E s \in ProbeStatuses :
        /\ p.id = id
        /\ settle(p, [kind |-> "response", status |-> s])

FetchReject(id) ==
    \E p \in pending :
        /\ p.id = id
        /\ settle(p, [kind |-> "rejected", status |-> 0])

CheckIds == 1..MaxChecks

\* the steps of a session whose user types inputs of I
Session(I) ==
    \/ \E value \in I : handleInputChange(value)
    \/ CheckEmpty
    \/ CheckNumeric
    \/ CheckNoFetch
    \/ CheckFetch
    \/ \E id \in CheckIds : FetchResolve(id)
    \/ \E id \in CheckIds : FetchReject(id)

Next == Session(Inputs)

Spec == Init /\ [][Next]_vars

\* one input for each way a check can go: empty, digits, a phrase, a
\* property name, an absolute URL, a URL the parser rejects
LiveInputs ==
    { <<" ">>,
      <<"4", "0", "4">>,
      <<" ", "n", "o", "t", " ", "f", "o", "u", "n", "d", " ">>,
      <<"c", "o", "n", "s", "t", "r", "u", "c", "t", "o", "r">>,
      <<"h", "t", "t", "p", "s", ":", "/", "/", "a", ".", "b">>,
      <<"h", "t", "t", "p", "s", ":">> }

NextLive == Session(LiveInputs)

\* the transport answers every fetch: each suspended check is settled
FairSpec ==
    /\ Init
    /\ [][NextLive]_vars
    /\ \A id \in CheckIds : WF_vars(FetchResolve(id) \/ FetchReject(id))

(* ------------------------------------------------------------------ *)
(* The history hook on its own: any sequence of addStatus calls          *)
(* ------------------------------------------------------------------ *)
SampleEntries ==
    { historyEntry(Num(200), "invalid", 0), historyEntry(Num(404), "2xx", 0) }

AddStatusCall(status) ==
    /\ Len(appended) < MaxAppends
    /\ history' = addStatus(history, status)
    /\ appended' = Append(appended, status)
    /\ UNCHANGED <<inputValue, trafficLightStatus, statusCategory, isUrl,
                   confirmedInput, pending, now, nChecks, fetches, done>>

NextHistory == \E status \in SampleEntries : AddStatusCall(status)

SpecHistory == Init /\ [][NextHistory]_vars

(* ------------------------------------------------------------------ *)
(* The phrase path on its own: a phrase of the table has been typed in   *)
(* some case and with some whitespace around it, and is checked          *)
(* ------------------------------------------------------------------ *)
InitPhrase ==
    /\ inputValue \in PhraseVariants
    /\ trafficLightStatus = "off"
    /\ statusCategory = "invalid"
    /\ isUrl = FALSE
    /\ confirmedInput = <<>>
    /\ history = <<>>
    /\ pending = {}
    /\ now = 0
    /\ nChecks = 0
    /\ fetches = 0
    /\ done = <<>>
    /\ appended = <<>>

NextPhrase == CheckNoFetch

SpecPhrase == InitPhrase /\ [][NextPhrase]_vars

(* ------------------------------------------------------------------ *)
(* Properties                                                            *)
(* ------------------------------------------------------------------ *)
Last(s) == s[Len(s)]

Min(a, b) == IF a < b THEN a ELSE b

\* the category and the light the classification table gives a code
TableCategory(c) ==
    IF c.kind # "number" THEN "invalid"
    ELSE IF c.val \in 100..199 THEN "1xx"
    ELSE IF c.val \in 200..299 THEN "2xx"
    ELSE IF c.val \in 300..399 THEN "3xx"
    ELSE IF c.val \in 400..499 THEN "4xx"
    ELSE IF c.val \in 500..599 THEN "5xx"
    ELSE "invalid"

TableLight(c) ==
    IF c.kind # "number" THEN "orange"
    ELSE IF c.val \in 100..399 THEN "green"
    ELSE IF c.val \in 400..599 THEN "red"
    ELSE "orange"

\* C1: after any sequence of addStatus calls from the empty history, the
\* history holds at most 10 entries and is exactly the last min(n, 10) of
\* the n entries appended, in the order they were appended.
C1_HistoryIsLastTen ==
    LET n == Len(appended)
        k == Min(n, 10)
    IN /\ Len(history) <= 10
       /\ Len(history) = k
       /\ \A i \in 1..k : history[i] = appended[n - k + i]

\* C1 witness: twelve appends have overflowed the history, the two oldest
\* entries are gone and the entry now first differs from the one evicted.
C1_Witness ==
    /\ Len(appended) = 12
    /\ Len(history) = 10
    /\ history[1] = appended[3]
    /\ history[10] = appended[12]
    /\ appended[1] # appended[3]

\* C2: every entry of the history carries the category the classification
\* table assigns to the entry's own code.
C2_EntryCategoryMatchesCode ==
    \A i \in DOMAIN history :
        history[i].code.kind = "number"
            => history[i].category = TableCategory(history[i].code)

\* C3: when a check finishes having gone through the resolver, the light and
\* the category shown are those the table gives the code it resolved
\* (green 100..399, red 400..599, amber and invalid otherwise and for no
\* code), whatever was shown before.
C3_DisplayIsFunctionOfCode ==
    [][(Len(done') = Len(done) + 1 /\ Last(done').via # "empty")
          => /\ trafficLightStatus' = TableLight(Last(done').code)
             /\ statusCategory' = TableCategory(Last(done').code)]_vars

\* C3 witness: a check that resolved a 3xx code from a probe has finished
\* while the light was red, and the light is now green.
C3_Witness ==
    /\ Len(done) = 2
    /\ done[1].light = "red"
    /\ done[2].code = Num(301)
    /\ trafficLightStatus = "green"
    /\ statusCategory = "3xx"

\* C4: after a check finishes whose code did not come from a successful URL
\* probe, the "was URL" flag is false, whatever checks came before; so the
\* "Open URL in a new tab" button is shown only when the check that finished
\* last resolved its code through a successful probe.
C4_FlagFalseUnlessProbeSucceeded ==
    done # <<>> =>
        /\ Last(done).via \in {"numeric", "phrase", "none"} => isUrl = FALSE
        /\ openUrlButtonShown => Last(done).via = "url"

\* C5: a check on input whose trimmed form is all decimal digits resolves,
\* through the numeric strategy, to the base-10 value of those digits.
C5_TrimmedDigitsResolveNumerically ==
    \A i \in DOMAIN done :
        isDigits(trim(done[i].input))
            => /\ done[i].via = "numeric"
               /\ done[i].code = Num(parseInt(trim(done[i].input)))

\* C6: a check on empty or whitespace-only input turns the light off and
\* leaves the history, the network (no fetch issued, no probe settled or
\* dropped), the confirmed input and the "was URL" flag as they were, from
\* every reachable state.
C6_EmptyCheckFrame ==
    [][(nChecks' = nChecks + 1 /\ trim(inputValue) = <<>>)
          => /\ trafficLightStatus' = "off"
             /\ history' = history
             /\ appended' = appended
             /\ fetches' = fetches
             /\ {p.id : p \in pending'} = {p.id : p \in pending}
             /\ confirmedInput' = confirmedInput
             /\ isUrl' = isUrl]_vars

\* C6 witness: an empty check has just finished in a session that had an
\* entry in its history, a confirmed input and the "was URL" flag set.
C6_Witness ==
    /\ done # <<>>
    /\ Last(done).via = "empty"
    /\ trafficLightStatus = "off"
    /\ history # <<>>
    /\ confirmedInput # <<>>
    /\ isUrl

\* C7: a failed URL probe (input new URL rejects, or a rejected fetch) never
\* ends the check with an exception: the check goes on to the phrase lookup
\* and takes its result, and when that is nothing too it ends with the light
\* amber and the category invalid.
C7_ProbeFailureIsNoException ==
    \A i \in DOMAIN done :
        done[i].via \notin {"empty", "numeric", "url"}
            => /\ done[i].via # "exception"
               /\ done[i].code = phraseLookup(done[i].input)
               /\ done[i].code = NullCode
                     => done[i].light = "orange" /\ done[i].category = "invalid"

\* C7 witness: both kinds of failure have happened: a check whose fetch was
\* rejected and a check whose input new URL rejected, each ended amber.
C7_Witness ==
    /\ \E i \in DOMAIN done :
          /\ isAbsoluteURL(trim(done[i].input))
          /\ done[i].via = "none"
          /\ done[i].light = "orange"
    /\ \E i \in DOMAIN done :
          /\ ~isAbsoluteURL(trim(done[i].input))
          /\ done[i].via = "none"
          /\ done[i].light = "orange"

\* C8: a check on non-empty input that is not all digits, not an absolute
\* URL and, lowercased and trimmed, not a key of the phrase table resolves
\* no code: it ends amber and invalid, without an exception, and appends
\* nothing to the history.
C8_UnrecognisedInputResolvesNothing ==
    \A i \in DOMAIN done :
        ( /\ trim(done[i].input) # <<>>
          /\ ~isDigits(done[i].input)
          /\ ~isAbsoluteURL(trim(done[i].input))
          /\ trim(toLowerCase(done[i].input)) \notin DOMAIN statusCodeMap )
            => /\ done[i].code = NullCode
               /\ done[i].via = "none"
               /\ done[i].light = "orange"
               /\ done[i].category = "invalid"
               /\ done[i].appends = 0

PendingIds == {p.id : p \in pending}

DoneIds == {done[i].id : i \in DOMAIN done}

\* C9: no probe is cancelled (every check started is in flight or has
\* finished, and finishes once), and when checks have overlapped and all
\* have finished, the light and category shown are those of the check that
\* finished last, whatever the order the checks were started in.
C9_LastCompletionWins ==
    /\ PendingIds \cup DoneIds = 1..nChecks
    /\ PendingIds \cap DoneIds = {}
    /\ Len(done) = Cardinality(DoneIds)
    /\ (pending = {} /\ \E i \in DOMAIN done : done[i].overlapped)
          => /\ Last(done).via \notin {"empty", "exception"}
                => /\ trafficLightStatus = TableLight(Last(done).code)
                   /\ statusCategory = TableCategory(Last(done).code)
             /\ Last(done).via = "empty"
                => trafficLightStatus = "off" /\ statusCategory = "invalid"

\* C9 witness: the check started first finished last, after overlapping the
\* second one, and its result, not the second one's, is shown.
C9_Witness ==
    /\ pending = {}
    /\ Len(done) = 2
    /\ done[1].id = 2
    /\ done[2].id = 1
    /\ done[2].overlapped
    /\ done[1].light = "red"
    /\ done[2].light = "green"
    /\ trafficLightStatus = "green"
    /\ statusCategory = TableCategory(done[2].code)

\* C10: every check started on non-empty input finishes, provided the
\* transport answers every fetch, and finishes without an exception showing
\* a light among green, red and amber and one of the six categories.
C10_EveryCheckCompletes ==
    /\ \A id \in CheckIds : (id \in PendingIds) ~> (id \in DoneIds)
    /\ [](\A i \in DOMAIN done :
            done[i].via # "empty"
                => /\ done[i].via # "exception"
                   /\ done[i].light \in {"green", "red", "orange"}
                   /\ done[i].category \in Categories)

\* C10 witness: two checks were suspended on their probes at once and both
\* have finished, one on a response and one on a rejection.
C10_Witness ==
    /\ pending = {}
    /\ fetches = 2
    /\ Len(done) = 2
    /\ \E i, j \in DOMAIN done : done[i].via = "url" /\ done[j].via = "none"
    /\ \A i \in DOMAIN done : done[i].overlapped

\* C11: phrase resolution ignores letter case and surrounding whitespace:
\* a check on any variant of a key p of the phrase table (other case,
\* whitespace before or after) resolves, by the phrase lookup, the code the
\* table gives p.
C11_PhraseVariantsResolveAlike ==
    \A i \in DOMAIN done : \A p \in DOMAIN statusCodeMap :
        done[i].input \in variantsOf(p)
            => /\ done[i].via = "phrase"
               /\ done[i].code = Num(statusCodeMap[p])
               /\ done[i].appends = 1

\* C11 witness: "NoT FoUnD" followed by a space and a newline has been
\* checked and resolved 404.
C11_Witness ==
    /\ inputValue = <<"N", "o", "T", " ", "F", "o", "U", "n", "D", " ", "\n">>
    /\ done # <<>>
    /\ Last(done).input = inputValue
    /\ Last(done).code = Num(404)
    /\ trafficLightStatus = "red"

\* the finished checks that resolved a code, in order of finishing
ResolvedChecks ==
    LET resolvedCode(d) == d.code # NullCode
    IN SelectSeq(done, resolvedCode)

\* C12: the history holds one entry for each check that finished with a
\* resolved code, holding that code, in the order the checks finished (the
\* last 10 of them): none lost, none twice, equal codes not merged, under
\* any interleaving of overlapping checks.
C12_OneEntryPerResolvedCheck ==
    LET n == Len(ResolvedChecks)
        k == Min(n, 10)
    IN /\ Len(history) = k
       /\ \A i \in 1..k : history[i].code = ResolvedChecks[n - k + i].code

\* C12 witness: two probes were in flight together, finished in the reverse
\* of the order they were started in and resolved the same code; the
\* history holds two entries with that code.
C12_Witness ==
    /\ pending = {}
    /\ Len(done) = 2
    /\ done[1].id = 2
    /\ done[2].id = 1
    /\ done[1].overlapped /\ done[2].overlapped
    /\ done[1].code = Num(200)
    /\ done[2].code = Num(200)
    /\ Len(history) = 2
    /\ history[1].code = Num(200)
    /\ history[2].code = Num(200)

\* C13: whenever no check is in flight, the confirmed input is the input of
\* the check that produced the light and category now shown, that is of the
\* check that finished last (stated for checks on non-empty input).
C13_ConfirmedInputMatchesDisplay ==
    (pending = {} /\ done # <<>> /\ Last(done).via # "empty")
        => confirmedInput = Last(done).input

\* C14: whenever the "Open URL in a new tab" button is shown, the check that
\* finished last resolved its code by a successful probe and the address the
\* button opens is the URL that check probed.
C14_ButtonOpensProbedUrl ==
    openUrlButtonShown
        => /\ done # <<>>
           /\ Last(done).via = "url"
           /\ openedAddress = trim(Last(done).input)
====
